---- MODULE Spec2Model ----
(***************************************************************************)
(* Model of experiment/mlp.py: the MLPClassifier (embedding loader and     *)
(* forward pass) and the __main__ training driver.                         *)
(*                                                                         *)
(* Two specifications share the module:                                    *)
(*   Spec       the training driver (lines 165-247), one action per        *)
(*              statement group, with exceptions unwinding the `with`      *)
(*              blocks;                                                    *)
(*   SpecModel  MLPClassifier.__init__ (lines 35-48) read line by line,    *)
(*              followed by the pooling of MLPClassifier.forward           *)
(*              (lines 62-63).                                             *)
(* Floats are abstracted to integers; a mean is kept as the exact pair     *)
(* (sum, count).                                                           *)
(***************************************************************************)
EXTENDS Integers, Sequences, FiniteSets, TLC

\* ---------------------------------------------------------------- bounds
MaxEpochs == 2
MaxBatches == 2
MaxLines == 3
MaxSeqLen == 2
MaxPad == 2
VectorSize == 2

\* number of hidden blocks: len(hidden_layers), default list of two widths
NumHidden == 2

VARIABLES
    \* ---- driver inputs (args and the loaders built from them)
    epochs,          \* args.epochs
    nTrain,          \* number of batches train_loader yields
    hasVal,          \* args.validation_data given
    nVal,            \* number of batches validation_loader yields
    hasTest,         \* args.test_data given
    nTest,           \* number of batches test_loader yields
    dropout,         \* args.dropout (per cent)
    \* ---- driver state
    pc,              \* position in the script
    runOpen,         \* an mlflow run is active
    runClosed,       \* number of times the run has been ended
    exc,             \* exception in flight / that ended the run, or "none"
    epoch,           \* loop variable; -1 while unbound
    idx,             \* index of the next batch of the loader being iterated
    training,        \* model.training
    gradEnabled,     \* torch.is_grad_enabled()
    params,          \* version of the model parameters
    output,          \* result of the last forward call
    running_loss,    \* list of per-batch loss values of the current pass
    predictions,     \* list of predicted labels of the current pass
    metrics,         \* sequence of log_metric calls: [name, step]
    stepLog,         \* statements executed for the current training batch
    optSteps,        \* optimizer.step() calls so far
    trainPasses,     \* completed iterations over train_loader
    valPasses,       \* completed iterations over validation_loader
    testPasses,      \* completed iterations over test_loader
    \* ---- classifier construction and forward
    token_to_index,  \* vocabulary: token -> index
    init_matrix,     \* embeddings_matrix right after lines 37-38
    embeddings_matrix,
    embeddings,      \* weight of self.embeddings once constructed
    lstate,          \* position in __init__
    lexc,            \* exception raised by __init__, or "none"
    nLines,          \* non-header lines read so far
    seen,            \* vocabulary tokens carried by some non-header line read
    lastVec,         \* vocabulary token -> values parsed from its last line
    malformed,       \* some non-header line read had a wrong field count
    x,               \* input of forward: one token-index sequence
    xPadded,         \* x followed by extra padding indices
    pooled,          \* torch.mean(embeddings(x), dim=1) as [sum, n]
    pooledPadded     \* the same for xPadded

driverVars == <<epochs, nTrain, hasVal, nVal, hasTest, nTest, dropout, pc,
                runOpen, runClosed, exc, epoch, idx, training, gradEnabled,
                params, output, running_loss, predictions, metrics, stepLog,
                optSteps, trainPasses, valPasses, testPasses>>

modelVars == <<token_to_index, init_matrix, embeddings_matrix, embeddings,
               lstate, lexc, nLines, seen, lastVec, malformed, x, xPadded,
               pooled, pooledPadded>>

vars == <<driverVars, modelVars>>

\* ------------------------------------------------------------ value sets
LossVals == {0, 1}
Labels == {0, 1}
DropoutProbs == {0, 30}
HiddenBlocks == 1..NumHidden
BatchCounts == 0..MaxBatches
ConstructionErrors == {"IndexError", "StopIteration", "ValueError", "RuntimeError"}

NoOutput == [dropped |-> {}, training |-> TRUE, grad |-> TRUE, batch |-> -1, params |-> -1]

\* =====================================================================
\* MLPClassifier.forward, lines 64-67: which hidden blocks zero activations.
\* F.dropout(x, self.dropout) is called without training=self.training, so
\* its `training` argument keeps its default True: the mask is drawn
\* whenever self.dropout is truthy, whatever the module's mode t is.
DropoutOutcomes(p, t) == IF p = 0 THEN {{}} ELSE SUBSET HiddenBlocks

\* model(data): the forward call's observable result
ForwardResult(d, b) == [dropped |-> d, training |-> training, grad |-> gradEnabled,
                        batch |-> b, params |-> params]

\* =====================================================================
\* Driver helpers

\* line 200: `for idx, batch in enumerate(tqdm(train_loader))` has a next batch
\* (variant with early stopping: the pass ends once a zero loss is observed)
TrainLoopContinuesEarlyStop(i, n, losses) == i < n /\ (losses = <<>> \/ losses[Len(losses)] # 0)
TrainLoopContinues(i, n, losses) == i < n

\* line 197: `for epoch in trange(args.epochs)` has a next epoch
EpochLoopContinues(e, n) == e + 1 < n

\* line 211: `if validation_dataset:` (the dataset object is truthy when built)
\* (variant that validates after the first epoch only)
ValidationEnabledFirstOnly(hv, e) == hv /\ e = 0
ValidationEnabled(hv, e) == hv

\* line 230: `if test_dataset:`
TestEnabled(ht) == ht

\* line 198: model.train() sets the mode flag
\* (variant in which model.train() is missing: the mode stays as it was)
ModeAfterTrainKept(t) == t
ModeAfterTrain(t) == TRUE

\* lines 213, 232: model.eval()
ModeAfterEval(t) == FALSE

\* line 165: leaving `with mlflow.start_run()` ends the run, exception or not
\* (variant without the `with`: an exception leaves the run active)
RunOpenAfterExitLeak(e) == e # "none"
RunOpenAfterExit(e) == FALSE

\* an exception raised at the current statement starts unwinding
Raise(e) ==
    /\ exc' = e
    /\ pc' = "unwind"

Goto(p) ==
    /\ pc' = p
    /\ exc' = exc

inputVars == <<epochs, nTrain, hasVal, nVal, hasTest, nTest, dropout>>
countVars == <<optSteps, trainPasses, valPasses, testPasses>>
passVars == <<running_loss, predictions>>
modeVars == <<training, gradEnabled>>
runVars == <<runOpen, runClosed>>

\* =====================================================================
\* Driver: Init is the state at line 165, datasets and loaders built.
DriverInit ==
    /\ epochs \in 0..MaxEpochs
    /\ nTrain \in BatchCounts
    /\ hasVal \in BOOLEAN
    /\ nVal \in (IF hasVal THEN BatchCounts ELSE {0})
    /\ hasTest \in BOOLEAN
    /\ nTest \in (IF hasTest THEN BatchCounts ELSE {0})
    /\ dropout \in DropoutProbs
    /\ pc = "start_run"
    /\ runOpen = FALSE
    /\ runClosed = 0
    /\ exc = "none"
    /\ epoch = -1
    /\ idx = 0
    /\ training = TRUE
    /\ gradEnabled = TRUE
    /\ params = 0
    /\ output = NoOutput
    /\ running_loss = <<>>
    /\ predictions = <<>>
    /\ metrics = <<>>
    /\ stepLog = <<>>
    /\ optSteps = 0
    /\ trainPasses = 0
    /\ valPasses = 0
    /\ testPasses = 0

ModelIdle ==
    /\ token_to_index = <<>>
    /\ init_matrix = <<>>
    /\ embeddings_matrix = <<>>
    /\ embeddings = <<>>
    /\ lstate = "idle"
    /\ lexc = "none"
    /\ nLines = 0
    /\ seen = {}
    /\ lastVec = <<>>
    /\ malformed = FALSE
    /\ x = <<>>
    /\ xPadded = <<>>
    /\ pooled = [sum |-> <<>>, n |-> 0]
    /\ pooledPadded = [sum |-> <<>>, n |-> 0]

Init == DriverInit /\ ModelIdle

\* line 165: with mlflow.start_run()
StartRun ==
    /\ pc = "start_run"
    /\ runOpen' = TRUE
    /\ Goto("log_params")
    /\ UNCHANGED <<modelVars, inputVars, countVars, passVars, modeVars, runClosed, epoch, idx,
                   params, output, metrics, stepLog>>

\* lines 166-176: log_params, device
LogParams ==
    /\ pc = "log_params"
    /\ Goto("build_model")
    /\ UNCHANGED <<modelVars, inputVars, countVars, passVars, modeVars, runVars, epoch, idx,
                   params, output, metrics, stepLog>>

\* lines 178-194: MLPClassifier(...), loss, optimizer. The constructor either
\* returns a module (in learning mode) or raises one of the loader's errors.
BuildModel ==
    /\ pc = "build_model"
    /\ \/ /\ training' = TRUE
          /\ Goto("epoch_head")
       \/ /\ \E e \in ConstructionErrors : Raise(e)
          /\ UNCHANGED training
    /\ UNCHANGED <<modelVars, inputVars, countVars, passVars, gradEnabled, runVars, epoch, idx,
                   params, output, metrics, stepLog>>

\* line 197: for epoch in trange(args.epochs)
EpochHead ==
    /\ pc = "epoch_head"
    /\ IF EpochLoopContinues(epoch, epochs)
          THEN /\ epoch' = epoch + 1
               /\ Goto("train_mode")
          ELSE /\ epoch' = epoch
               /\ Goto("test_check")
    /\ UNCHANGED <<modelVars, inputVars, countVars, passVars, modeVars, runVars, idx,
                   params, output, metrics, stepLog>>

\* lines 198-199: model.train(); running_loss = []
TrainMode ==
    /\ pc = "train_mode"
    /\ training' = ModeAfterTrain(training)
    /\ running_loss' = <<>>
    /\ idx' = 0
    /\ Goto("train_next")
    /\ UNCHANGED <<modelVars, inputVars, countVars, predictions, gradEnabled, runVars, epoch,
                   params, output, metrics, stepLog>>

\* line 200: next batch of train_loader, or the end of the pass
TrainNext ==
    /\ pc = "train_next"
    /\ IF TrainLoopContinues(idx, nTrain, running_loss)
          THEN /\ Goto("zero_grad")
               /\ trainPasses' = trainPasses
          ELSE /\ Goto("log_train")
               /\ trainPasses' = trainPasses + 1
    /\ UNCHANGED <<modelVars, inputVars, optSteps, valPasses, testPasses, passVars, modeVars,
                   runVars, epoch, idx, params, output, metrics, stepLog>>

\* line 201: optimizer.zero_grad()
ZeroGrad ==
    /\ pc = "zero_grad"
    /\ stepLog' = <<"zero_grad">>
    /\ Goto("forward")
    /\ UNCHANGED <<modelVars, inputVars, countVars, passVars, modeVars, runVars, epoch, idx,
                   params, output, metrics>>

\* lines 202-204: output = model(data)
TrainForward ==
    /\ pc = "forward"
    /\ \E d \in DropoutOutcomes(dropout, training) : output' = ForwardResult(d, idx)
    /\ stepLog' = Append(stepLog, "forward")
    /\ Goto("loss")
    /\ UNCHANGED <<modelVars, inputVars, countVars, passVars, modeVars, runVars, epoch, idx,
                   params, metrics>>

\* line 205: loss_value = loss(output, target)
TrainLoss ==
    /\ pc = "loss"
    /\ stepLog' = Append(stepLog, "loss")
    /\ Goto("backward")
    /\ UNCHANGED <<modelVars, inputVars, countVars, passVars, modeVars, runVars, epoch, idx,
                   params, output, metrics>>

\* line 206: loss_value.backward()
TrainBackward ==
    /\ pc = "backward"
    /\ stepLog' = Append(stepLog, "backward")
    /\ Goto("opt_step")
    /\ UNCHANGED <<modelVars, inputVars, countVars, passVars, modeVars, runVars, epoch, idx,
                   params, output, metrics>>

\* line 207: optimizer.step()
OptimizerStep ==
    /\ pc = "opt_step"
    /\ params' = params + 1
    /\ optSteps' = optSteps + 1
    /\ stepLog' = Append(stepLog, "step")
    /\ Goto("record_loss")
    /\ UNCHANGED <<modelVars, inputVars, trainPasses, valPasses, testPasses, passVars, modeVars,
                   runVars, epoch, idx, output, metrics>>

\* line 208: running_loss.append(loss_value.item()); the loop moves on
RecordLoss ==
    /\ pc = "record_loss"
    /\ \E v \in LossVals : running_loss' = Append(running_loss, v)
    /\ idx' = idx + 1
    /\ Goto("train_next")
    /\ UNCHANGED <<modelVars, inputVars, countVars, predictions, modeVars, runVars, epoch,
                   params, output, metrics, stepLog>>

\* line 209: mlflow.log_metric("train_loss", sum(..) / len(..), epoch)
LogTrainLoss ==
    /\ pc = "log_train"
    /\ IF Len(running_loss) = 0
          THEN /\ Raise("ZeroDivisionError")
               /\ metrics' = metrics
          ELSE /\ metrics' = Append(metrics, [name |-> "train_loss", step |-> epoch])
               /\ Goto("val_check")
    /\ UNCHANGED <<modelVars, inputVars, countVars, passVars, modeVars, runVars, epoch, idx,
                   params, output, stepLog>>

\* line 211: if validation_dataset
ValCheck ==
    /\ pc = "val_check"
    /\ IF ValidationEnabled(hasVal, epoch)
          THEN Goto("val_mode")
          ELSE Goto("epoch_head")
    /\ UNCHANGED <<modelVars, inputVars, countVars, passVars, modeVars, runVars, epoch, idx,
                   params, output, metrics, stepLog>>

\* lines 213-217 (validation) and 232-236 (test):
\* model.eval(); the lists are emptied; with torch.no_grad()
EvalMode(here, next) ==
    /\ pc = here
    /\ training' = ModeAfterEval(training)
    /\ gradEnabled' = FALSE
    /\ running_loss' = <<>>
    /\ predictions' = <<>>
    /\ idx' = 0
    /\ Goto(next)
    /\ UNCHANGED <<modelVars, inputVars, countVars, runVars, epoch, params, output, metrics,
                   stepLog>>

\* lines 219-221 and 238-240: output = model(data)
EvalForward(here, next) ==
    /\ pc = here
    /\ \E d \in DropoutOutcomes(dropout, training) : output' = ForwardResult(d, idx)
    /\ Goto(next)
    /\ UNCHANGED <<modelVars, inputVars, countVars, passVars, modeVars, runVars, epoch, idx,
                   params, metrics, stepLog>>

\* lines 222-226 and 241-245: the batch's loss and arg-max labels are collected
EvalCollect(here, next) ==
    /\ pc = here
    /\ \E v \in LossVals : running_loss' = Append(running_loss, v)
    /\ \E l \in Labels : predictions' = Append(predictions, l)
    /\ idx' = idx + 1
    /\ Goto(next)
    /\ UNCHANGED <<modelVars, inputVars, countVars, modeVars, runVars, epoch, params, output,
                   metrics, stepLog>>

ValMode == EvalMode("val_mode", "val_next")

\* line 218: for batch in tqdm(validation_loader)
ValNext ==
    /\ pc = "val_next"
    /\ IF idx < nVal
          THEN /\ Goto("val_forward")
               /\ valPasses' = valPasses
          ELSE /\ Goto("log_val_loss")
               /\ valPasses' = valPasses + 1
    /\ UNCHANGED <<modelVars, inputVars, optSteps, trainPasses, testPasses, passVars, modeVars,
                   runVars, epoch, idx, params, output, metrics, stepLog>>

ValForward == EvalForward("val_forward", "val_collect")

ValCollect == EvalCollect("val_collect", "val_next")

\* line 227: mlflow.log_metric("validation_loss", sum(..) / len(..), epoch)
LogValLoss ==
    /\ pc = "log_val_loss"
    /\ IF Len(running_loss) = 0
          THEN /\ Raise("ZeroDivisionError")
               /\ metrics' = metrics
          ELSE /\ metrics' = Append(metrics, [name |-> "validation_loss", step |-> epoch])
               /\ Goto("log_val_bacc")
    /\ UNCHANGED <<modelVars, inputVars, countVars, passVars, modeVars, runVars, epoch, idx,
                   params, output, stepLog>>

\* line 228: mlflow.log_metric("validation_bacc", ..., epoch); no_grad is left
LogValBacc ==
    /\ pc = "log_val_bacc"
    /\ metrics' = Append(metrics, [name |-> "validation_bacc", step |-> epoch])
    /\ gradEnabled' = TRUE
    /\ Goto("epoch_head")
    /\ UNCHANGED <<modelVars, inputVars, countVars, passVars, training, runVars, epoch, idx,
                   params, output, stepLog>>

\* line 230: if test_dataset
TestCheck ==
    /\ pc = "test_check"
    /\ IF TestEnabled(hasTest)
          THEN Goto("test_mode")
          ELSE Goto("exit_run")
    /\ UNCHANGED <<modelVars, inputVars, countVars, passVars, modeVars, runVars, epoch, idx,
                   params, output, metrics, stepLog>>

TestMode == EvalMode("test_mode", "test_next")

\* line 237: for batch in tqdm(test_loader)
TestNext ==
    /\ pc = "test_next"
    /\ IF idx < nTest
          THEN /\ Goto("test_forward")
               /\ testPasses' = testPasses
          ELSE /\ Goto("log_test_loss")
               /\ testPasses' = testPasses + 1
    /\ UNCHANGED <<modelVars, inputVars, optSteps, trainPasses, valPasses, passVars, modeVars,
                   runVars, epoch, idx, params, output, metrics, stepLog>>

TestForward == EvalForward("test_forward", "test_collect")

TestCollect == EvalCollect("test_collect", "test_next")

\* line 246: mlflow.log_metric("test_loss", sum(..) / len(..), epoch).
\* The arguments are evaluated left to right: the mean first, then the global
\* `epoch`, which is unbound when the epoch loop never ran.
LogTestLoss ==
    /\ pc = "log_test_loss"
    /\ IF Len(running_loss) = 0
          THEN /\ Raise("ZeroDivisionError")
               /\ metrics' = metrics
          ELSE IF epoch = -1
                  THEN /\ Raise("NameError")
                       /\ metrics' = metrics
                  ELSE /\ metrics' = Append(metrics, [name |-> "test_loss", step |-> epoch])
                       /\ Goto("log_test_bacc")
    /\ UNCHANGED <<modelVars, inputVars, countVars, passVars, modeVars, runVars, epoch, idx,
                   params, output, stepLog>>

\* line 247: mlflow.log_metric("test_bacc", ..., epoch); no_grad is left
LogTestBacc ==
    /\ pc = "log_test_bacc"
    /\ metrics' = Append(metrics, [name |-> "test_bacc", step |-> epoch])
    /\ gradEnabled' = TRUE
    /\ Goto("exit_run")
    /\ UNCHANGED <<modelVars, inputVars, countVars, passVars, training, runVars, epoch, idx,
                   params, output, stepLog>>

\* positions inside the `with mlflow.start_run()` block
RunPcs == {"log_params", "build_model", "epoch_head", "train_mode", "train_next",
           "zero_grad", "forward", "loss", "backward", "opt_step", "record_loss",
           "log_train", "val_check", "val_mode", "val_next", "val_forward",
           "val_collect", "log_val_loss", "log_val_bacc", "test_check", "test_mode",
           "test_next", "test_forward", "test_collect", "log_test_loss",
           "log_test_bacc"}

\* any statement of the block may raise for a reason outside the script
\* (I/O error from a loader or the tracker, out of memory)
ExternalFailure ==
    /\ pc \in RunPcs
    /\ Raise("external")
    /\ UNCHANGED <<modelVars, inputVars, countVars, passVars, modeVars, runVars, epoch, idx,
                   params, output, metrics, stepLog>>

\* line 165, __exit__ of the run's context manager (and of torch.no_grad when
\* the exception crosses it): reached at the end of the block and by any
\* exception raised inside it. Nothing catches the exception.
WithExit ==
    /\ pc \in {"exit_run", "unwind"}
    /\ runOpen' = RunOpenAfterExit(exc)
    /\ runClosed' = runClosed + 1
    /\ gradEnabled' = TRUE
    /\ pc' = IF exc = "none" THEN "done" ELSE "crashed"
    /\ exc' = exc
    /\ UNCHANGED <<modelVars, inputVars, countVars, passVars, training, epoch, idx,
                   params, output, metrics, stepLog>>

Next ==
    \/ StartRun
    \/ LogParams
    \/ BuildModel
    \/ EpochHead
    \/ TrainMode
    \/ TrainNext
    \/ ZeroGrad
    \/ TrainForward
    \/ TrainLoss
    \/ TrainBackward
    \/ OptimizerStep
    \/ RecordLoss
    \/ LogTrainLoss
    \/ ValCheck
    \/ ValMode
    \/ ValNext
    \/ ValForward
    \/ ValCollect
    \/ LogValLoss
    \/ LogValBacc
    \/ TestCheck
    \/ TestMode
    \/ TestNext
    \/ TestForward
    \/ TestCollect
    \/ LogTestLoss
    \/ LogTestBacc
    \/ ExternalFailure
    \/ WithExit


Spec == Init /\ [][Next]_vars

\* =====================================================================
\* MLPClassifier.__init__ (lines 35-48) and the pooling of forward (62-63)

Tokens == {"pad", "cat"}
FileFields == {"1", "2", "x"}
RandVals == {8, 9}

SeqsUpTo(S, n) == UNION {[1..m -> S] : m \in 0..n}

\* json.load of the token -> index file: a one-to-one map onto 0..n-1
Vocabularies ==
    UNION { {f \in [S -> 0..(Cardinality(S) - 1)] :
                \A a, b \in S : a # b => f[a] # f[b]} : S \in SUBSET Tokens }

\* a non-header line after line.strip().split(None, 1) and vector.split():
\* its first field and the fields after it
Lines == [word : Tokens, fields : SeqsUpTo(FileFields, VectorSize + 1)]

ZeroVector == [i \in 1..VectorSize |-> 0]
RandomVectors == [1..VectorSize -> RandVals]

\* float(n), line 45
IsNumber(f) == f \in {"1", "2"}
ParseFloat(f) == IF f = "1" THEN 1 ELSE 2
ParseVector(fields) == [i \in 1..Len(fields) |-> ParseFloat(fields[i])]

\* embeddings_matrix[i] = tensor, line 44: the tensor is copied into the row
\* when the shapes match, and a one-element tensor is broadcast over the row
Assignable(v) == Len(v) = VectorSize \/ Len(v) = 1
RowAfterAssign(v) == IF Len(v) = VectorSize THEN v ELSE [i \in 1..VectorSize |-> v[1]]

\* nn.Embedding.from_pretrained(matrix, freeze, padding_idx=0), lines 46-48:
\* the given matrix becomes the weight as it is; padding_idx only masks the
\* gradient of row 0
FromPretrained(m) == m

ModelInit ==
    /\ token_to_index \in Vocabularies
    /\ init_matrix = <<>>
    /\ embeddings_matrix = <<>>
    /\ embeddings = <<>>
    /\ lstate = "alloc"
    /\ lexc = "none"
    /\ nLines = 0
    /\ seen = {}
    /\ lastVec = [t \in DOMAIN token_to_index |-> <<>>]
    /\ malformed = FALSE
    /\ x = <<>>
    /\ xPadded = <<>>
    /\ pooled = [sum |-> <<>>, n |-> 0]
    /\ pooledPadded = [sum |-> <<>>, n |-> 0]

DriverIdle ==
    /\ epochs = 0
    /\ nTrain = 0
    /\ hasVal = FALSE
    /\ nVal = 0
    /\ hasTest = FALSE
    /\ nTest = 0
    /\ dropout = 0
    /\ pc = "idle"
    /\ runOpen = FALSE
    /\ runClosed = 0
    /\ exc = "none"
    /\ epoch = -1
    /\ idx = 0
    /\ training = TRUE
    /\ gradEnabled = TRUE
    /\ params = 0
    /\ output = NoOutput
    /\ running_loss = <<>>
    /\ predictions = <<>>
    /\ metrics = <<>>
    /\ stepLog = <<>>
    /\ optSteps = 0
    /\ trainPasses = 0
    /\ valPasses = 0
    /\ testPasses = 0

InitModel == ModelInit /\ DriverIdle

fileVars == <<nLines, seen, lastVec, malformed>>
fwdVars == <<x, xPadded, pooled, pooledPadded>>

LoaderRaise(e) ==
    /\ lstate' = "error"
    /\ lexc' = e

\* lines 37-38: torch.randn(len(token_to_index), vector_size); row 0 zeroed.
\* With an empty vocabulary the matrix has no row 0 to assign to.
AllocMatrix ==
    /\ lstate = "alloc"
    /\ LET n == Cardinality(DOMAIN token_to_index) IN
       IF n = 0
          THEN /\ LoaderRaise("IndexError")
               /\ UNCHANGED <<init_matrix, embeddings_matrix>>
          ELSE /\ \E r \in [0..(n - 1) -> RandomVectors] :
                     LET m == [r EXCEPT ![0] = ZeroVector] IN
                     /\ init_matrix' = m
                     /\ embeddings_matrix' = m
               /\ lstate' = "header"
               /\ lexc' = lexc
    /\ UNCHANGED <<driverVars, token_to_index, embeddings, fileVars, fwdVars>>

\* line 40: next(fh) drops the first line, whatever it holds; a file with no
\* line at all ends the iterator at once
SkipHeader ==
    /\ lstate = "header"
    /\ \E present \in BOOLEAN :
          IF present
             THEN /\ lstate' = "reading"
                  /\ lexc' = lexc
             ELSE LoaderRaise("StopIteration")
    /\ UNCHANGED <<driverVars, token_to_index, init_matrix, embeddings_matrix, embeddings,
                   fileVars, fwdVars>>

\* lines 41-45, one iteration of `for line in fh`
ReadLine ==
    /\ lstate = "reading"
    /\ nLines < MaxLines
    /\ \E line \in Lines :
          LET inVocab == line.word \in DOMAIN token_to_index
              numeric == \A i \in 1..Len(line.fields) : IsNumber(line.fields[i])
              vector  == ParseVector(line.fields)
          IN
          IF Len(line.fields) = 0
             \* line 42: nothing to unpack into `vector`
             THEN /\ LoaderRaise("ValueError")
                  /\ UNCHANGED <<embeddings_matrix, fileVars>>
             ELSE IF ~inVocab
                \* line 43: the line is dropped unparsed
                THEN /\ nLines' = nLines + 1
                     /\ malformed' = (malformed \/ Len(line.fields) # VectorSize)
                     /\ UNCHANGED <<embeddings_matrix, seen, lastVec, lstate, lexc>>
                ELSE IF ~numeric
                   \* line 45: float(n)
                   THEN /\ LoaderRaise("ValueError")
                        /\ UNCHANGED <<embeddings_matrix, fileVars>>
                   ELSE IF ~Assignable(vector)
                      \* line 44: shape mismatch in the row assignment
                      THEN /\ LoaderRaise("RuntimeError")
                           /\ UNCHANGED <<embeddings_matrix, fileVars>>
                      ELSE /\ embeddings_matrix' =
                                 [embeddings_matrix EXCEPT
                                    ![token_to_index[line.word]] = RowAfterAssign(vector)]
                           /\ nLines' = nLines + 1
                           /\ seen' = seen \cup {line.word}
                           /\ lastVec' = [lastVec EXCEPT ![line.word] = vector]
                           /\ malformed' = (malformed \/ Len(line.fields) # VectorSize)
                           /\ UNCHANGED <<lstate, lexc>>
    /\ UNCHANGED <<driverVars, token_to_index, init_matrix, embeddings, fwdVars>>

\* end of the file, then lines 46-48
FinishConstruction ==
    /\ lstate = "reading"
    /\ embeddings' = FromPretrained(embeddings_matrix)
    /\ lstate' = "done"
    /\ UNCHANGED <<driverVars, token_to_index, init_matrix, embeddings_matrix, lexc, fileVars,
                   fwdVars>>

\* line 62: self.embeddings(x), the rows of the weight picked by x
Lookup(w, s) == [i \in 1..Len(s) |-> w[s[i]]]

RECURSIVE SumRows(_)
SumRows(rows) ==
    IF Len(rows) = 0
       THEN ZeroVector
       ELSE LET rest == SumRows(Tail(rows)) IN
            [i \in 1..VectorSize |-> Head(rows)[i] + rest[i]]

\* line 63: torch.mean(x, dim=1) divides the sum of all positions of the
\* sequence, padding included, by the sequence length
MeanPool(rows) == [sum |-> SumRows(rows), n |-> Len(rows)]

\* equality of two means kept as (sum, n)
MeanEq(a, b) == \A i \in 1..VectorSize : a.sum[i] * b.n = b.sum[i] * a.n

Padding(k) == [i \in 1..k |-> 0]

\* lines 62-63 applied to a sequence and to the same sequence with k more
\* padding indices (pad_value=0, line 111)
Forward ==
    /\ lstate = "done"
    /\ \E s \in SeqsUpTo(DOMAIN embeddings, MaxSeqLen) \ {<<>>}, k \in 1..MaxPad :
          /\ x' = s
          /\ xPadded' = s \o Padding(k)
          /\ pooled' = MeanPool(Lookup(embeddings, s))
          /\ pooledPadded' = MeanPool(Lookup(embeddings, s \o Padding(k)))
    /\ lstate' = "forwarded"
    /\ UNCHANGED <<driverVars, token_to_index, init_matrix, embeddings_matrix, embeddings, lexc,
                   fileVars>>

NextModel ==
    \/ AllocMatrix
    \/ SkipHeader
    \/ ReadLine
    \/ FinishConstruction
    \/ Forward


SpecModel == InitModel /\ [][NextModel]_vars

\* =====================================================================
\* Properties of the training driver (checked under Spec)

TrainBatchPcs == {"zero_grad", "forward", "loss", "backward", "opt_step", "record_loss"}
TrainPassPcs == TrainBatchPcs \cup {"train_next"}
ValPcs == {"val_mode", "val_next", "val_forward", "val_collect", "log_val_loss",
           "log_val_bacc"}
TestPcs == {"test_mode", "test_next", "test_forward", "test_collect", "log_test_loss",
            "log_test_bacc"}
EndPcs == {"done", "crashed"}

Logged(n, e) == \E i \in 1..Len(metrics) : metrics[i] = [name |-> n, step |-> e]
LoggedTimes(n, e) == Cardinality({i \in 1..Len(metrics) : metrics[i] = [name |-> n, step |-> e]})
LoggedName(n) == \E i \in 1..Len(metrics) : metrics[i].name = n

BatchSteps == <<"zero_grad", "forward", "loss", "backward", "step">>

\* C1: the driver runs the training passes of epochs 0, 1, ... in order, each
\* pass takes the batches 0..B-1 once each, each batch goes through
\* zero_grad, forward, loss, backward, optimizer step in that order with one
\* optimizer step, the number of optimizer steps is always (completed passes)
\* * B + (batches done in the current pass) whatever loss values were
\* observed, and a run that reaches its end has made E passes and E * B steps.
C1_FixedTrainingSchedule ==
    /\ pc \in TrainPassPcs =>
          /\ trainPasses = epoch
          /\ idx < nTrain \/ pc = "train_next"
          /\ optSteps = epoch * nTrain + idx + (IF pc = "record_loss" THEN 1 ELSE 0)
    /\ pc \in TrainBatchPcs =>
          stepLog = SubSeq(BatchSteps, 1,
                           CASE pc = "zero_grad" -> 0
                             [] pc = "forward" -> 1
                             [] pc = "loss" -> 2
                             [] pc = "backward" -> 3
                             [] pc = "opt_step" -> 4
                             [] pc = "record_loss" -> 5)
             \/ (pc = "zero_grad" /\ stepLog = BatchSteps)
    /\ pc \in {"loss", "backward", "opt_step", "record_loss"} => output.batch = idx
    /\ pc \in {"log_train", "val_check"} \cup ValPcs =>
          /\ trainPasses = epoch + 1
          /\ optSteps = (epoch + 1) * nTrain
    /\ pc \in {"test_check", "exit_run", "done"} \cup TestPcs =>
          /\ trainPasses = epochs
          /\ optSteps = epochs * nTrain
    /\ pc = "done" => \A e \in 0..(epochs - 1) : LoggedTimes("train_loss", e) = 1

C1_Witness ==
    /\ pc = "done"
    /\ epochs = MaxEpochs
    /\ nTrain = MaxBatches
    /\ optSteps = MaxEpochs * MaxBatches
    /\ trainPasses = MaxEpochs

\* C2: with a validation set, the training pass of epoch e is followed by one
\* validation pass which logs validation_loss and validation_bacc with step e
\* before epoch e+1 starts; without one, no validation pass runs and no
\* validation metric is logged.
C2_ValidationEveryEpoch ==
    /\ ~hasVal =>
          /\ valPasses = 0
          /\ pc \notin ValPcs
          /\ ~LoggedName("validation_loss")
          /\ ~LoggedName("validation_bacc")
    /\ (hasVal /\ pc \in TrainPassPcs \cup {"train_mode", "log_train", "val_check"}) =>
          /\ valPasses = epoch
          /\ \A e \in 0..MaxEpochs + 1 :
                /\ LoggedTimes("validation_loss", e) = (IF e < epoch THEN 1 ELSE 0)
                /\ LoggedTimes("validation_bacc", e) = (IF e < epoch THEN 1 ELSE 0)
    /\ (hasVal /\ pc \in {"epoch_head", "test_check", "exit_run", "done"} \cup TestPcs) =>
          /\ valPasses = epoch + 1
          /\ \A e \in 0..MaxEpochs + 1 :
                /\ LoggedTimes("validation_loss", e) = (IF e <= epoch THEN 1 ELSE 0)
                /\ LoggedTimes("validation_bacc", e) = (IF e <= epoch THEN 1 ELSE 0)
    /\ (hasVal /\ pc = "done") => valPasses = epochs
    /\ \A i \in 1..(Len(metrics) - 1) :
          /\ (hasVal /\ metrics[i].name = "train_loss") =>
                metrics[i + 1] = [name |-> "validation_loss", step |-> metrics[i].step]
          /\ metrics[i].name = "validation_loss" =>
                metrics[i + 1] = [name |-> "validation_bacc", step |-> metrics[i].step]

C2_Witness ==
    /\ pc = "zero_grad"
    /\ hasVal
    /\ epoch = 1
    /\ valPasses = 1
    /\ Logged("validation_loss", 0)
    /\ Logged("validation_bacc", 0)

\* C3: for every epoch count E >= 0, a run with a test set configured (and in
\* which no loader, tracker or constructor call fails) makes one test pass
\* after the last epoch, logs test_loss and test_bacc and exits normally;
\* without a test set no test pass runs.
C3_TestReported ==
    /\ (hasTest /\ pc \in EndPcs /\ exc \in {"none", "NameError"}) =>
          /\ pc = "done"
          /\ testPasses = 1
          /\ LoggedName("test_loss")
          /\ LoggedName("test_bacc")
    /\ ~hasTest => (testPasses = 0 /\ pc \notin TestPcs)

\* C8: once an exception is in flight nothing more is executed (no optimizer
\* step, forward call, metric report or state change of the model), it is
\* never cleared, and the run is ended exactly once on that path as on the
\* normal one.
C8_NothingAfterFailure ==
    exc # "none" =>
       /\ exc' = exc
       /\ pc' = "crashed"
       /\ UNCHANGED <<optSteps, trainPasses, valPasses, testPasses, params, output,
                      metrics, running_loss, predictions, training, epoch, idx>>

C8_RunClosed ==
    /\ pc \in EndPcs => (~runOpen /\ runClosed = 1)
    /\ pc \in RunPcs \cup {"unwind", "exit_run"} => (runOpen /\ runClosed = 0)
    /\ pc = "crashed" <=> (exc # "none" /\ pc # "unwind")
    /\ pc = "unwind" => exc # "none"

C8_FailureAborts == []C8_RunClosed /\ [][C8_NothingAfterFailure]_vars

C8_Witness ==
    /\ pc = "crashed"
    /\ exc = "external"
    /\ optSteps = 1
    /\ ~runOpen
    /\ runClosed = 1

\* C9: the parameters change only in an optimizer step, taken in learning
\* mode with gradients enabled; every forward call of a validation or test
\* pass runs in inference mode with gradients disabled and leaves the
\* parameters as they were.
C9_ModesInv ==
    /\ pc \in TrainBatchPcs => (training /\ gradEnabled)
    /\ pc \in {"val_next", "val_forward", "val_collect", "log_val_loss", "log_val_bacc",
               "test_next", "test_forward", "test_collect", "log_test_loss",
               "log_test_bacc"} => (~training /\ ~gradEnabled)
    /\ pc \in {"val_collect", "test_collect"} =>
          (~output.training /\ ~output.grad /\ output.params = params)
    /\ params = optSteps

C9_ParamsStep ==
    /\ params' # params => (pc = "opt_step" /\ training /\ gradEnabled)
    /\ pc \in ValPcs \cup TestPcs => params' = params

C9_ParamsOnlyInTraining == []C9_ModesInv /\ [][C9_ParamsStep]_vars

C9_Witness ==
    /\ pc = "opt_step"
    /\ epoch = 1
    /\ hasVal
    /\ valPasses = 1
    /\ training

\* C10: no forward call of a validation or test pass drops activations in any
\* hidden block.
C10_NoDropoutInEval ==
    pc \in {"val_collect", "test_collect"} => output.dropped = {}

\* =====================================================================
\* Properties of the classifier (checked under SpecModel)

Constructed == lstate \in {"done", "forwarded"}

\* C4: after construction row 0 of the embedding matrix is the zero vector.
C4_RowZeroIsZero ==
    Constructed => embeddings[0] = ZeroVector

\* C5: after construction, the row of every vocabulary token carried by a
\* non-header line equals the vector parsed from the last such line, and the
\* row of every vocabulary token of non-zero index carried by no line is its
\* random initial value.
C5_LastOccurrenceWins ==
    Constructed =>
       \A t \in DOMAIN token_to_index :
          /\ t \in seen => embeddings[token_to_index[t]] = lastVec[t]
          /\ (t \notin seen /\ token_to_index[t] # 0) =>
                embeddings[token_to_index[t]] = init_matrix[token_to_index[t]]

\* C6: a file with a non-header line whose number of value fields differs
\* from the vector size never yields a matrix, and neither does an empty
\* vocabulary.
C6_MalformedLineIsError ==
    /\ Constructed => ~malformed
    /\ token_to_index = <<>> => ~Constructed

\* C7: the pooled vector of a sequence followed by k >= 1 padding indices
\* equals the pooled vector of the sequence.
C7_PaddingInvariance ==
    lstate = "forwarded" => MeanEq(pooled, pooledPadded)

====
